---------------------------- MODULE Spec2Model ----------------------------
(***************************************************************************)
(* A model of bw-passport-dedup (src/src/main.rs): the configuration       *)
(* resolution of main, the fingerprint pipeline build_key and the dedup     *)
(* loop with its keep policies.                                             *)
(*                                                                         *)
(* Strings are sequences of byte values (Rust String / &str), so that      *)
(* ordering, trimming, case folding, splitting and JSON serialization are   *)
(* computed, not assumed.  JSON values (serde_json::Value) are records      *)
(* tagged by t; an object is the sequence of its <<key, value>> entries in  *)
(* map order, with pairwise distinct keys.                                  *)
(***************************************************************************)
EXTENDS Naturals, Sequences, FiniteSets, TLC

VARIABLES
    pc,        \* position in main: "args", "loaded", "resolved", "loop", "done"
    cli,       \* the command line as given, before clap's defaults
    file,      \* what the config file sets, before serde's defaults
    config,    \* main's config
    items,     \* root["items"] as read
    next,      \* how many items the loop has drained
    key_log,   \* the value of key in each iteration so far
    seen,      \* HashMap<String, usize>: fingerprint -> index into deduped
    deduped,   \* Vec<Value>: the output collection
    removed,   \* the removal counter
    total,     \* the total main prints
    run,       \* 1: a run on an export; 2: the run on that run's output
    firstRun   \* what run 1 read, wrote and counted, once run 2 has started

vars == <<pc, cli, file, config, items, next, key_log, seen, deduped, removed,
          total, run, firstRun>>

(***************************************************************************)
(* Bounds of the model.                                                    *)
(***************************************************************************)
MaxItems == 3     \* longest input sequence of the dedup runs
MaxUris == 2      \* longest login.uris array of the fingerprinted records

(***************************************************************************)
(* Strings.                                                                *)
(***************************************************************************)
\* Ord for str: bytewise lexicographic, a proper prefix is Less.
StrCmp(a, b) ==
    LET n == IF Len(a) < Len(b) THEN Len(a) ELSE Len(b)
        D == {i \in 1..n : a[i] # b[i]}
    IN  IF D # {}
        THEN LET i == CHOOSE k \in D : \A j \in D : k <= j
             IN  IF a[i] < b[i] THEN "Less" ELSE "Greater"
        ELSE IF Len(a) < Len(b) THEN "Less"
        ELSE IF Len(a) > Len(b) THEN "Greater"
        ELSE "Equal"

\* char::is_whitespace on the ASCII range: \t \n \v \f \r and space.
IsWhitespace(c) == c \in {9, 10, 11, 12, 13, 32}

\* str::trim
trim(s) ==
    LET N == {i \in 1..Len(s) : ~IsWhitespace(s[i])}
    IN  IF N = {} THEN <<>>
        ELSE SubSeq(s, CHOOSE i \in N : \A j \in N : i <= j,
                       CHOOSE i \in N : \A j \in N : j <= i)

\* str::to_ascii_lowercase: 'A'..'Z' (65..90) to 'a'..'z', all else kept.
to_ascii_lowercase(s) ==
    [i \in 1..Len(s) |-> IF s[i] \in 65..90 THEN s[i] + 32 ELSE s[i]]

\* The 1-based index of the first occurrence of pat in s, 0 when there is none.
Find(s, pat) ==
    LET P == {i \in 1..(Len(s) + 1) :
                 /\ i + Len(pat) - 1 <= Len(s)
                 /\ SubSeq(s, i, i + Len(pat) - 1) = pat}
    IN  IF P = {} THEN 0 ELSE CHOOSE i \in P : \A j \in P : i <= j

\* The index of the last occurrence of the byte c in s, 0 when there is none.
FindLast(s, c) ==
    LET P == {i \in 1..Len(s) : s[i] = c}
    IN  IF P = {} THEN 0 ELSE CHOOSE i \in P : \A j \in P : j <= i

\* s.split(pat).next(): the text before the first pat, all of s without one.
Before(s, i) == IF i = 0 THEN s ELSE SubSeq(s, 1, i - 1)
SplitFirst(s, pat) == Before(s, Find(s, pat))

\* An Option<&str>: <<>> is None, <<s>> is Some(s).
NoStr == <<>>
SomeStr(s) == <<s>>

\* s.split(pat).nth(1): the text between the first and the second pat;
\* None when s holds no pat.
SecondFrom(s, pat, i) ==
    IF i = 0 THEN NoStr
    ELSE SomeStr(SplitFirst(SubSeq(s, i + Len(pat), Len(s)), pat))
SplitSecond(s, pat) == SecondFrom(s, pat, Find(s, pat))

\* s.split(c).last(): the text after the last c, all of s without one.
SplitLast(s, c) == SubSeq(s, FindLast(s, c) + 1, Len(s))

\* s.split(c).filter(non-empty).collect(): the non-empty pieces of s.
RECURSIVE SplitNonEmpty(_, _)
SplitNonEmpty(s, c) ==
    IF s = <<>> THEN <<>>
    ELSE LET i == Find(s, <<c>>)
             head == IF i = 0 THEN s ELSE SubSeq(s, 1, i - 1)
             rest == IF i = 0 THEN <<>> ELSE SubSeq(s, i + 1, Len(s))
         IN  (IF head = <<>> THEN <<>> ELSE <<head>>) \o SplitNonEmpty(rest, c)

\* Stable sort of a sequence of <<key, payload>> pairs by key (slice::sort,
\* slice::sort_by: stable, ties keep their order).
InsertByKey(sorted, p) ==
    LET n == Cardinality({i \in 1..Len(sorted) :
                              StrCmp(sorted[i][1], p[1]) # "Greater"})
    IN  SubSeq(sorted, 1, n) \o <<p>> \o SubSeq(sorted, n + 1, Len(sorted))

RECURSIVE SortByKey(_)
SortByKey(ps) ==
    IF Len(ps) <= 1 THEN ps
    ELSE InsertByKey(SortByKey(SubSeq(ps, 1, Len(ps) - 1)), ps[Len(ps)])

\* Vec::dedup: consecutive equal elements collapse to the first.
RECURSIVE VecDedup(_)
VecDedup(s) ==
    IF Len(s) <= 1 THEN s
    ELSE LET front == VecDedup(SubSeq(s, 1, Len(s) - 1))
         IN  IF front[Len(front)] = s[Len(s)] THEN front
             ELSE Append(front, s[Len(s)])

(***************************************************************************)
(* serde_json::Value.                                                      *)
(***************************************************************************)
JNull == [t |-> "null"]
JBool(b) == [t |-> "bool", b |-> b]
JNum(n) == [t |-> "num", n |-> n]
JStr(s) == [t |-> "str", s |-> s]
JArr(a) == [t |-> "arr", a |-> a]
JObj(m) == [t |-> "obj", m |-> m]

\* Option::None of a lookup.
None == [t |-> "none"]

\* Map::get
MapGet(m, k) ==
    LET P == {i \in 1..Len(m) : m[i][1] = k}
    IN  IF P = {} THEN None ELSE m[CHOOSE i \in P : TRUE][2]

\* Map::insert: a present key keeps its place and takes the new value.
MapInsert(m, k, v) ==
    IF \E i \in 1..Len(m) : m[i][1] = k
    THEN [i \in 1..Len(m) |-> IF m[i][1] = k THEN <<k, v>> ELSE m[i]]
    ELSE Append(m, <<k, v>>)

\* Map::remove (the order of the entries left does not reach a fingerprint:
\* canonicalize sorts them).
MapRemove(m, k) == SelectSeq(m, LAMBDA e : e[1] # k)

\* Value::get(&str): None unless the value is an object holding the key.
Get(v, k) == IF v.t = "obj" THEN MapGet(v.m, k) ELSE None

\* The decimal digits of a natural number.
RECURSIVE Digits(_)
Digits(n) == IF n < 10 THEN <<48 + n>> ELSE Append(Digits(n \div 10), 48 + (n % 10))

\* serde_json's string escaping: a quote or a backslash takes a backslash.
RECURSIVE Escape(_)
Escape(s) ==
    IF s = <<>> THEN <<>>
    ELSE (IF s[1] \in {34, 92} THEN <<92, s[1]>> ELSE <<s[1]>>) \o Escape(Tail(s))

Quote(s) == <<34>> \o Escape(s) \o <<34>>

\* serde_json::to_string: the compact encoding.
RECURSIVE to_string(_), SerElems(_), SerEntries(_)
to_string(v) ==
    CASE v.t = "null" -> <<110, 117, 108, 108>>
      [] v.t = "bool" -> IF v.b THEN <<116, 114, 117, 101>>
                         ELSE <<102, 97, 108, 115, 101>>
      [] v.t = "num" -> Digits(v.n)
      [] v.t = "str" -> Quote(v.s)
      [] v.t = "arr" -> <<91>> \o SerElems(v.a) \o <<93>>
      [] v.t = "obj" -> <<123>> \o SerEntries(v.m) \o <<125>>

SerElems(a) ==
    IF a = <<>> THEN <<>>
    ELSE to_string(a[1]) \o (IF Len(a) > 1 THEN <<44>> \o SerElems(Tail(a)) ELSE <<>>)

SerEntries(m) ==
    IF m = <<>> THEN <<>>
    ELSE Quote(m[1][1]) \o <<58>> \o to_string(m[1][2])
         \o (IF Len(m) > 1 THEN <<44>> \o SerEntries(Tail(m)) ELSE <<>>)


\* Value::as_str
as_str(v) == IF v.t = "str" THEN SomeStr(v.s) ELSE NoStr

(***************************************************************************)
(* The key names the program reads or writes.                              *)
(***************************************************************************)
K_login == <<108, 111, 103, 105, 110>>                         \* "login"
K_uris == <<117, 114, 105, 115>>                               \* "uris"
K_uri == <<117, 114, 105>>                                     \* "uri"
K_username == <<117, 115, 101, 114, 110, 97, 109, 101>>        \* "username"
K_password == <<112, 97, 115, 115, 119, 111, 114, 100>>        \* "password"
K_totp == <<116, 111, 116, 112>>                               \* "totp"
K_name == <<110, 97, 109, 101>>                                \* "name"
K_domain == <<100, 111, 109, 97, 105, 110>>                    \* "domain"
K_id == <<105, 100>>                                           \* "id"
K_revisionDate == <<114, 101, 118, 105, 115, 105, 111, 110, 68, 97, 116, 101>>
K_creationDate == <<99, 114, 101, 97, 116, 105, 111, 110, 68, 97, 116, 101>>
K_passwordHistory ==
    <<112, 97, 115, 115, 119, 111, 114, 100, 72, 105, 115, 116, 111, 114, 121>>

(***************************************************************************)
(* The fingerprint pipeline.                                               *)
(***************************************************************************)
\* Option::unwrap_or on an Option<&str>.
UnwrapOr(opt, default) == IF opt = NoStr THEN default ELSE opt[1]

\* Option<Value>::unwrap_or(Value::Null)
OrNull(v) == IF v = None THEN JNull ELSE v

\* A Vec<String> as a Vec<Value> of strings.
JStrings(ss) == [i \in 1..Len(ss) |-> JStr(ss[i])]

\* Vec<String>::sort
SortStrings(ss) ==
    LET sorted == SortByKey([i \in 1..Len(ss) |-> <<ss[i], ss[i]>>])
    IN  [i \in 1..Len(ss) |-> sorted[i][2]]

\* Path::split('.') without the empty segments.
parse_path(path) == SplitNonEmpty(path, 46)

extract_login_field(item, field) == OrNull(Get(Get(item, K_login), field))

\* One entry of login.uris in extract_uris: an object gives its "uri" when
\* that is a string, a string gives itself, anything else gives nothing.
EntryUri(entry) ==
    CASE entry.t = "obj" -> as_str(MapGet(entry.m, K_uri))
      [] entry.t = "str" -> SomeStr(entry.s)
      [] OTHER -> NoStr

RECURSIVE EntryUris(_)
EntryUris(entries) ==
    IF entries = <<>> THEN <<>>
    ELSE JStrings(EntryUri(entries[1])) \o EntryUris(Tail(entries))

UrisOfArray(uris) == IF uris.t = "arr" THEN EntryUris(uris.a) ELSE <<>>

extract_uris(item) == UrisOfArray(Get(Get(item, K_login), K_uris))

NonEmpty(host) == IF host = <<>> THEN NoStr ELSE SomeStr(host)

extract_domain_from_uri(uri) ==
    LET without_scheme == UnwrapOr(SplitSecond(uri, <<58, 47, 47>>), uri)
        host_port == SplitFirst(without_scheme, <<47>>)
        host_at == SplitLast(host_port, 64)
        host == SplitFirst(host_at, <<58>>)
    IN  NonEmpty(host)

\* The loop of extract_domains: the host of each uri, the uri itself without.
DomainsOf(uris) ==
    [i \in 1..Len(uris) |->
        UnwrapOr(extract_domain_from_uri(uris[i].s), uris[i].s)]

\* extract_domains without domains.sort().
extract_domains_unsorted(item) ==
    JStrings(VecDedup(DomainsOf(extract_uris(item))))

extract_domains(item) ==
    JStrings(VecDedup(SortStrings(DomainsOf(extract_uris(item)))))

\* One arm of build_policy_value's match: the entry inserted for a key.
PolicyEntry(item, key) ==
    CASE key = "Domain" -> <<K_domain, JArr(extract_domains(item))>>
      [] key = "Username" -> <<K_username, extract_login_field(item, K_username)>>
      [] key = "Password" -> <<K_password, extract_login_field(item, K_password)>>
      [] key = "Name" -> <<K_name, OrNull(Get(item, K_name))>>
      [] key = "Uri" -> <<K_uri, JArr(extract_uris(item))>>
      [] key = "Totp" -> <<K_totp, extract_login_field(item, K_totp)>>

InsertEntry(map, entry) == MapInsert(map, entry[1], entry[2])

RECURSIVE build_policy_map(_, _, _)
build_policy_map(item, keys, map) ==
    IF keys = <<>> THEN map
    ELSE build_policy_map(item, Tail(keys),
                          InsertEntry(map, PolicyEntry(item, keys[1])))

build_policy_value(item, keys) == JObj(build_policy_map(item, keys, <<>>))

\* remove_keys_anywhere without the Array arm: objects inside arrays keep
\* their ignored keys.
RECURSIVE remove_keys_skipping_arrays(_, _)
remove_keys_skipping_arrays(value, ignore_keys) ==
    CASE value.t = "obj" ->
             LET kept == SelectSeq(value.m, LAMBDA e : e[1] \notin ignore_keys)
             IN  JObj([i \in 1..Len(kept) |->
                        <<kept[i][1],
                          remove_keys_skipping_arrays(kept[i][2], ignore_keys)>>])
      [] OTHER -> value

RECURSIVE remove_keys_anywhere(_, _)
remove_keys_anywhere(value, ignore_keys) ==
    CASE value.t = "obj" ->
             LET kept == SelectSeq(value.m, LAMBDA e : e[1] \notin ignore_keys)
             IN  JObj([i \in 1..Len(kept) |->
                        <<kept[i][1], remove_keys_anywhere(kept[i][2], ignore_keys)>>])
      [] value.t = "arr" ->
             JArr([i \in 1..Len(value.a) |->
                     remove_keys_anywhere(value.a[i], ignore_keys)])
      [] OTHER -> value

RECURSIVE remove_path(_, _)
remove_path(value, path) ==
    IF path = <<>> \/ value.t # "obj" THEN value
    ELSE IF Len(path) = 1 THEN JObj(MapRemove(value.m, path[1]))
    ELSE LET child == MapGet(value.m, path[1])
         IN  IF child = None THEN value
             ELSE JObj(MapInsert(value.m, path[1],
                                 remove_path(child, Tail(path))))

\* The loop of build_key over ignore_paths.
RECURSIVE remove_paths(_, _)
remove_paths(value, paths) ==
    IF paths = <<>> THEN value
    ELSE remove_paths(remove_path(value, paths[1]), Tail(paths))

\* The String arm of normalize_strings.
NormalizeString(s, lowercase_strings) ==
    IF lowercase_strings THEN to_ascii_lowercase(s) ELSE s

RECURSIVE normalize_strings(_, _, _)
normalize_strings(value, trim_strings, lowercase_strings) ==
    CASE value.t = "str" ->
             JStr(NormalizeString(IF trim_strings THEN trim(value.s)
                                  ELSE value.s, lowercase_strings))
      [] value.t = "arr" ->
             JArr([i \in 1..Len(value.a) |->
                     normalize_strings(value.a[i], trim_strings, lowercase_strings)])
      [] value.t = "obj" ->
             JObj([i \in 1..Len(value.m) |->
                     <<value.m[i][1],
                       normalize_strings(value.m[i][2], trim_strings,
                                         lowercase_strings)>>])
      [] OTHER -> value

uri_sort_key(value) ==
    CASE value.t = "obj" -> UnwrapOr(as_str(MapGet(value.m, K_uri)), <<>>)
      [] value.t = "str" -> value.s
      [] OTHER -> to_string(value)

\* sort_login_uris leaving the array as it is.
SortUris_keeps_order(uris) == uris

\* uris.sort_by(...) of sort_login_uris.
SortUris(uris) ==
    LET sorted == SortByKey([i \in 1..Len(uris) |->
                                <<uri_sort_key(uris[i]), uris[i]>>])
    IN  [i \in 1..Len(uris) |-> sorted[i][2]]

\* sort_login_uris once map is an object and login is map's "login".
SortUrisOfLogin(map, login) ==
    LET uris == MapGet(login.m, K_uris)
    IN  IF uris.t # "arr" THEN JObj(map)
        ELSE JObj(MapInsert(map, K_login,
                            JObj(MapInsert(login.m, K_uris,
                                           JArr(SortUris(uris.a))))))

SortLoginOf(map, login) ==
    IF login.t # "obj" THEN JObj(map) ELSE SortUrisOfLogin(map, login)

\* sort_login_uris also sorting the "uri" array of a policy value.
sort_login_uris_and_projected(value) ==
    IF value.t # "obj" THEN value
    ELSE IF MapGet(value.m, K_uri).t = "arr"
    THEN JObj(MapInsert(value.m, K_uri,
                        JArr(SortUris(MapGet(value.m, K_uri).a))))
    ELSE SortLoginOf(value.m, MapGet(value.m, K_login))

sort_login_uris(value) ==
    IF value.t # "obj" THEN value
    ELSE SortLoginOf(value.m, MapGet(value.m, K_login))

\* keys.sort() of canonicalize.
SortedKeys(m) == SortStrings([i \in 1..Len(m) |-> m[i][1]])

RECURSIVE canonicalize(_)
canonicalize(value) ==
    CASE value.t = "obj" ->
             LET keys == SortedKeys(value.m)
             IN  JObj([i \in 1..Len(value.m) |->
                        <<keys[i], canonicalize(MapGet(value.m, keys[i]))>>])
      [] value.t = "arr" ->
             JArr([i \in 1..Len(value.a) |-> canonicalize(value.a[i])])
      [] OTHER -> value

\* main's ignore_keys: the HashSet of config.ignore.keys.
IgnoreKeys(cfg) == {cfg.ignore.keys[i] : i \in 1..Len(cfg.ignore.keys)}

\* main's ignore_paths: the non-blank config.ignore.paths, parsed.
IgnorePaths(cfg) ==
    LET kept == SelectSeq(cfg.ignore.paths, LAMBDA p : trim(p) # <<>>)
    IN  [i \in 1..Len(kept) |-> parse_path(kept[i])]

\* The steps build_key applies alike to the policy value and to the filtered
\* working copy: the URI sort when enabled, the string normalization, the
\* canonical form and its compact encoding.
Fingerprint(value, cfg) ==
    to_string(canonicalize(
        normalize_strings(IF cfg.normalize.sort_uris THEN sort_login_uris(value)
                          ELSE value,
                          cfg.normalize.trim_strings,
                          cfg.normalize.lowercase_strings)))

build_key(item, cfg, ignore_keys, ignore_paths) ==
    Fingerprint(IF cfg.dedup.policy_keys # <<>>
                THEN build_policy_value(item, cfg.dedup.policy_keys)
                ELSE remove_paths(remove_keys_anywhere(item, ignore_keys),
                                  ignore_paths),
                cfg)

\* The fingerprint of an item under a configuration, as main computes it.
KeyOf(item, cfg) == build_key(item, cfg, IgnoreKeys(cfg), IgnorePaths(cfg))

(***************************************************************************)
(* The keep policy.                                                        *)
(***************************************************************************)
best_date(item) ==
    LET revision == as_str(Get(item, K_revisionDate))
    IN  IF revision # NoStr THEN revision
        ELSE as_str(Get(item, K_creationDate))

\* The match of compare_dates on the two Option<&str>.
CompareOptions(existing_date, candidate_date) ==
    CASE existing_date # NoStr /\ candidate_date # NoStr ->
             StrCmp(existing_date[1], candidate_date[1])
      [] existing_date = NoStr /\ candidate_date # NoStr -> "Less"
      [] existing_date # NoStr /\ candidate_date = NoStr -> "Greater"
      [] OTHER -> "Equal"

compare_dates(existing, candidate) ==
    CompareOptions(best_date(existing), best_date(candidate))

\* should_replace with the date comparisons made non-strict: a candidate whose
\* date equals the retained record's replaces it.
should_replace_on_equal(existing, candidate, keep) ==
    CASE keep = "First" -> FALSE
      [] keep = "Last" -> TRUE
      [] keep = "Newest" -> compare_dates(existing, candidate) # "Greater"
      [] keep = "Oldest" -> compare_dates(existing, candidate) # "Less"

should_replace(existing, candidate, keep) ==
    CASE keep = "First" -> FALSE
      [] keep = "Last" -> TRUE
      [] keep = "Newest" -> compare_dates(existing, candidate) = "Less"
      [] keep = "Oldest" -> compare_dates(existing, candidate) = "Greater"

(***************************************************************************)
(* Configuration: Args, Config and their defaults.                         *)
(***************************************************************************)
DefaultDedupConfig ==
    [keep |-> "First", policy_keys |-> <<"Domain", "Username", "Password">>]

DefaultIgnoreConfig ==
    [keys |-> <<K_id, K_revisionDate, K_creationDate, K_passwordHistory>>,
     paths |-> <<>>]

DefaultNormalizeConfig ==
    [trim_strings |-> FALSE, lowercase_strings |-> FALSE, sort_uris |-> TRUE]

DefaultOutputConfig == [pretty |-> FALSE]

DefaultConfig ==
    [dedup |-> DefaultDedupConfig, ignore |-> DefaultIgnoreConfig,
     normalize |-> DefaultNormalizeConfig, output |-> DefaultOutputConfig]

\* An Option: <<>> is None, <<x>> is Some(x).
OrElse(opt, default) == IF opt = <<>> THEN default ELSE opt[1]

\* Args::parse: clap fills --keep and --sort-uris with their default_value_t,
\* a SetTrue flag is false when absent, an Option stays None.
ParseArgs(c) ==
    [keep |-> OrElse(c.keep, "First"),
     policy_key |-> c.policy_key,
     ignore_key |-> c.ignore_key,
     ignore_path |-> c.ignore_path,
     trim_strings |-> c.trim_strings,
     lowercase_strings |-> c.lowercase_strings,
     sort_uris |-> OrElse(c.sort_uris, TRUE),
     pretty |-> c.pretty]

\* load_config: every field the file leaves out takes its #[serde(default)].
load_config(f) ==
    [dedup |-> [keep |-> OrElse(f.keep, DefaultDedupConfig.keep),
                policy_keys |-> OrElse(f.policy_keys,
                                       DefaultDedupConfig.policy_keys)],
     ignore |-> [keys |-> OrElse(f.keys, DefaultIgnoreConfig.keys),
                 paths |-> OrElse(f.paths, DefaultIgnoreConfig.paths)],
     normalize |->
         [trim_strings |-> OrElse(f.trim_strings,
                                  DefaultNormalizeConfig.trim_strings),
          lowercase_strings |-> OrElse(f.lowercase_strings,
                                       DefaultNormalizeConfig.lowercase_strings),
          sort_uris |-> OrElse(f.sort_uris, DefaultNormalizeConfig.sort_uris)],
     output |-> [pretty |-> OrElse(f.pretty, DefaultOutputConfig.pretty)]]

\* main, lines 194-217: the command line laid over the loaded config.
ApplyArgs(cfg, args) ==
    [dedup |->
         [keep |-> IF args.keep # "First" THEN args.keep ELSE cfg.dedup.keep,
          policy_keys |-> OrElse(args.policy_key, cfg.dedup.policy_keys)],
     ignore |->
         [keys |-> OrElse(args.ignore_key, cfg.ignore.keys),
          paths |-> OrElse(args.ignore_path, cfg.ignore.paths)],
     normalize |->
         [trim_strings |-> IF args.trim_strings THEN TRUE
                           ELSE cfg.normalize.trim_strings,
          lowercase_strings |-> IF args.lowercase_strings THEN TRUE
                                ELSE cfg.normalize.lowercase_strings,
          sort_uris |-> IF args.sort_uris # cfg.normalize.sort_uris
                        THEN args.sort_uris
                        ELSE cfg.normalize.sort_uris],
     output |-> [pretty |-> IF args.pretty THEN TRUE ELSE cfg.output.pretty]]

(***************************************************************************)
(* The steps of main.                                                      *)
(***************************************************************************)
\* let mut config = load_config(...)?
LoadConfig ==
    /\ pc = "args"
    /\ config' = load_config(file)
    /\ pc' = "loaded"
    /\ UNCHANGED <<cli, file, items, next, key_log, seen, deduped, removed, total,
                   run, firstRun>>

\* The overrides of lines 194-217.
Override ==
    /\ pc = "loaded"
    /\ config' = ApplyArgs(config, ParseArgs(cli))
    /\ pc' = "resolved"
    /\ UNCHANGED <<cli, file, items, next, key_log, seen, deduped, removed, total,
                   run, firstRun>>

\* One iteration of the loop whose key is not in seen: the item is pushed and
\* its index recorded.
\* The None arm pushing the filtered working copy instead of the item.
None_arm_pushes_working(item, key) ==
    /\ key \notin DOMAIN seen
    /\ deduped' = Append(deduped, remove_keys_anywhere(item, IgnoreKeys(config)))
    /\ seen' = [k \in DOMAIN seen \cup {key} |->
                   IF k = key THEN Len(deduped) ELSE seen[k]]
    /\ key_log' = Append(key_log, key)

\* The match of the loop on seen.get(&key), None arm.
None_arm(item, key) ==
    /\ key \notin DOMAIN seen
    /\ deduped' = Append(deduped, item)
    /\ seen' = [k \in DOMAIN seen \cup {key} |->
                   IF k = key THEN Len(deduped) ELSE seen[k]]
    /\ key_log' = Append(key_log, key)

Insert ==
    /\ pc = "loop"
    /\ next < Len(items)
    /\ None_arm(items[next + 1], KeyOf(items[next + 1], config))
    /\ next' = next + 1
    /\ UNCHANGED <<pc, cli, file, config, items, removed, total, run, firstRun>>

\* One iteration of the loop whose key is in seen: the keep policy decides
\* whether the item takes the slot, and removed counts it either way.
\* The Some arm taking the replaced record out of its slot and pushing the
\* item at the end.
Some_arm_moves(item, key) ==
    /\ key \in DOMAIN seen
    /\ deduped' = IF should_replace(deduped[seen[key] + 1], item,
                                    config.dedup.keep)
                  THEN Append(SubSeq(deduped, 1, seen[key])
                              \o SubSeq(deduped, seen[key] + 2, Len(deduped)),
                              item)
                  ELSE deduped
    /\ key_log' = Append(key_log, key)

\* The Some arm writing the item to the first slot, whatever the index.
Some_arm_first_slot(item, key) ==
    /\ key \in DOMAIN seen
    /\ deduped' = IF should_replace(deduped[seen[key] + 1], item,
                                    config.dedup.keep)
                  THEN [deduped EXCEPT ![1] = item]
                  ELSE deduped
    /\ key_log' = Append(key_log, key)

\* The match of the loop on seen.get(&key), Some(existing_index) arm.
Some_arm(item, key) ==
    /\ key \in DOMAIN seen
    /\ deduped' = IF should_replace(deduped[seen[key] + 1], item,
                                    config.dedup.keep)
                  THEN [deduped EXCEPT ![seen[key] + 1] = item]
                  ELSE deduped
    /\ key_log' = Append(key_log, key)

\* The iteration counting a duplicate only when it replaces the slot.
Duplicate_counts_replacements ==
    /\ pc = "loop"
    /\ next < Len(items)
    /\ Some_arm(items[next + 1], KeyOf(items[next + 1], config))
    /\ removed' = IF deduped' # deduped THEN removed + 1 ELSE removed
    /\ next' = next + 1
    /\ UNCHANGED <<pc, cli, file, config, items, seen, total, run, firstRun>>

Duplicate ==
    /\ pc = "loop"
    /\ next < Len(items)
    /\ Some_arm(items[next + 1], KeyOf(items[next + 1], config))
    /\ removed' = removed + 1
    /\ next' = next + 1
    /\ UNCHANGED <<pc, cli, file, config, items, seen, total, run, firstRun>>

\* The loop is over: total is computed and the output becomes root["items"].
Finish ==
    /\ pc = "loop"
    /\ next = Len(items)
    /\ total' = Len(deduped) + removed
    /\ pc' = "done"
    /\ UNCHANGED <<cli, file, config, items, next, key_log, seen, deduped, removed,
                   run, firstRun>>

\* The program is run again, with the same configuration, on the file the
\* first run wrote: main starts over with fresh seen, deduped and removed.
Rerun ==
    /\ pc = "done"
    /\ run = 1
    /\ firstRun' = [items |-> items, deduped |-> deduped, removed |-> removed]
    /\ items' = deduped
    /\ next' = 0
    /\ key_log' = <<>>
    /\ seen' = <<>>
    /\ deduped' = <<>>
    /\ removed' = 0
    /\ total' = 0
    /\ run' = 2
    /\ pc' = "loop"
    /\ UNCHANGED <<cli, file, config>>

(***************************************************************************)
(* Inputs: the exports and configurations the runs below start from.       *)
(***************************************************************************)
K_match == <<109, 97, 116, 99, 104>>                           \* "match"

SeqsUpTo(S, n) == UNION {[1..k -> S] : k \in 0..n}

\* An entry of login.uris as Bitwarden exports it.
UriEntry(match, uri) == JObj(<< <<K_match, match>>, <<K_uri, JStr(uri)>> >>)

Login(username, uris) ==
    JObj(<< <<K_username, JStr(username)>>, <<K_password, JStr(<<112>>)>>,
            <<K_uris, JArr(uris)>> >>)

\* An item of the export; dates are the entries for revisionDate/creationDate.
Item(id, login, dates) ==
    JObj(<< <<K_id, JStr(id)>>, <<K_name, JStr(<<110>>)>>, <<K_login, login>> >>
         \o dates)

Uri_a == <<97>>                                                \* "a"
Uri_b == <<98>>                                                \* "b"
Uri_B == <<66>>                                                \* "B"
Uri_sp_A == <<32, 65>>                                         \* " A"
Uri_full == <<115, 58, 47, 47, 117, 64, 98, 58, 56, 47, 112>>  \* "s://u@b:8/p"

Config(keep, policy_keys, ignore_keys, ignore_paths, trim_strings, lowercase_strings, sort_uris) ==
    [dedup |-> [keep |-> keep, policy_keys |-> policy_keys],
     ignore |-> [keys |-> ignore_keys, paths |-> ignore_paths],
     normalize |-> [trim_strings |-> trim_strings,
                    lowercase_strings |-> lowercase_strings,
                    sort_uris |-> sort_uris],
     output |-> [pretty |-> FALSE]]

Keeps == {"First", "Last", "Newest", "Oldest"}

\* Items that share or nearly share a login and differ in id and dates.
DedupItems ==
    LET ab == <<UriEntry(JNull, Uri_a), UriEntry(JNull, Uri_b)>>
        ba == <<UriEntry(JNull, Uri_b), UriEntry(JNull, Uri_a)>>
        rev(d) == << <<K_revisionDate, d>> >>
        cre(d) == << <<K_creationDate, d>> >>
    IN  { Item(<<49>>, Login(<<117>>, ab), rev(JStr(<<49>>))),
          Item(<<50>>, Login(<<117>>, ba), rev(JStr(<<50>>))),
          Item(<<51>>, Login(<<117>>, ab), cre(JStr(<<50>>))),
          Item(<<52>>, Login(<<117>>, ab), <<>>),
          Item(<<53>>, Login(<<85>>, ab), rev(JNum(7)) \o cre(JStr(<<49>>))) }

DedupConfigs ==
    { Config(k, DefaultDedupConfig.policy_keys, DefaultIgnoreConfig.keys, <<>>,
             FALSE, FALSE, TRUE) : k \in Keeps }
    \cup { Config(k, <<>>, DefaultIgnoreConfig.keys, <<>>, FALSE, FALSE, TRUE)
             : k \in Keeps }
    \cup { Config(k, DefaultDedupConfig.policy_keys, DefaultIgnoreConfig.keys,
                  <<>>, TRUE, TRUE, FALSE) : k \in {"Last", "Newest"} }

\* Items that differ in login.uris alone: order, multiplicity, case, blanks,
\* scheme and port, object and bare-string entries.
PolicyEntries ==
    { UriEntry(JNull, Uri_a), UriEntry(JNull, Uri_sp_A), JStr(Uri_full) }

PolicyItems ==
    { Item(<<49>>, Login(<<117>>, uris), <<>>) :
          uris \in SeqsUpTo(PolicyEntries, MaxUris) }

PolicyConfigs ==
    { Config("First", pk, DefaultIgnoreConfig.keys, <<>>, t, l, s) :
          pk \in {DefaultDedupConfig.policy_keys, <<"Username", "Uri">>},
          t \in BOOLEAN, l \in BOOLEAN, s \in BOOLEAN }

\* Items that differ in id, in the order of login.uris, and in the keys and
\* key order of the entries.
FilterEntries ==
    { UriEntry(JNum(0), Uri_a), UriEntry(JNum(1), Uri_B),
      JObj(<< <<K_uri, JStr(Uri_a)>>, <<K_id, JStr(<<57>>)>>,
              <<K_match, JNum(0)>> >>) }

FilterItems ==
    { Item(<<49>>, Login(<<117>>, uris), <<>>) :
          uris \in SeqsUpTo(FilterEntries, MaxUris) }
    \cup { Item(<<50>>, Login(<<117>>, uris), <<>>) :
              uris \in SeqsUpTo(FilterEntries, 1) }

FilterConfigs ==
    { Config("First", <<>>, ik, <<>>, t, l, s) :
          ik \in {DefaultIgnoreConfig.keys, <<K_uri>>},
          t \in BOOLEAN, l \in BOOLEAN, s \in BOOLEAN }
    \cup { Config("First", <<>>, ik, <<>>, FALSE, FALSE, FALSE) :
             ik \in {<<>>, <<K_match>>} }
    \cup { Config("First", <<>>, <<>>, <<K_login \o <<46, 46>> \o K_uris, <<32>>>>,
                  FALSE, FALSE, TRUE) }

NoRun == [items |-> <<>>, deduped |-> <<>>, removed |-> 0]

\* The command lines and config files of the configuration runs.
NoCli ==
    [keep |-> <<>>, policy_key |-> <<>>, ignore_key |-> <<>>,
     ignore_path |-> <<>>, trim_strings |-> FALSE, lowercase_strings |-> FALSE,
     sort_uris |-> <<>>, pretty |-> FALSE]

NoFile ==
    [keep |-> <<>>, policy_keys |-> <<>>, keys |-> <<>>, paths |-> <<>>,
     trim_strings |-> <<>>, lowercase_strings |-> <<>>, sort_uris |-> <<>>,
     pretty |-> <<>>]

Clis ==
    [keep : {<<>>, <<"First">>, <<"Newest">>},
     policy_key : {<<>>, << <<"Uri">> >>},
     ignore_key : {<<>>, << <<K_name>> >>},
     ignore_path : {<<>>, << <<K_login>> >>},
     trim_strings : BOOLEAN,
     lowercase_strings : BOOLEAN,
     sort_uris : {<<>>, <<TRUE>>, <<FALSE>>},
     pretty : {FALSE}]

Files ==
    [keep : {<<>>, <<"Last">>},
     policy_keys : {<<>>, << <<>> >>},
     keys : {<<>>, << <<K_id>> >>},
     paths : {<<>>, << <<K_name>> >>},
     trim_strings : {<<>>, <<TRUE>>},
     lowercase_strings : {<<>>, <<FALSE>>},
     sort_uris : {<<>>, <<FALSE>>},
     pretty : {<<>>}]

(***************************************************************************)
(* Specifications.                                                         *)
(***************************************************************************)
LoopStart(its, cfg) ==
    /\ pc = "loop"
    /\ cli = NoCli
    /\ file = NoFile
    /\ config = cfg
    /\ items = its
    /\ next = 0
    /\ key_log = <<>>
    /\ seen = <<>>
    /\ deduped = <<>>
    /\ removed = 0
    /\ total = 0
    /\ run = 1
    /\ firstRun = NoRun

\* Dedup runs: an export of up to MaxItems items, then a run on the output.
Init == \E its \in SeqsUpTo(DedupItems, MaxItems), cfg \in DedupConfigs :
            LoopStart(its, cfg)

Next == Insert \/ Duplicate \/ Finish \/ Rerun

Spec == Init /\ [][Next]_vars

\* Runs on two items in policy-key mode.
InitPolicy == \E a \in PolicyItems, b \in PolicyItems, cfg \in PolicyConfigs :
                  LoopStart(<<a, b>>, cfg)

NextPair == Insert \/ Duplicate \/ Finish

SpecPolicy == InitPolicy /\ [][NextPair]_vars

\* Runs on two items in whole-record filter mode.
InitFilter == \E a \in FilterItems, b \in FilterItems, cfg \in FilterConfigs :
                  LoopStart(<<a, b>>, cfg)

SpecFilter == InitFilter /\ [][NextPair]_vars

\* Configuration runs: main up to the resolved config.
InitConfig ==
    /\ pc = "args"
    /\ cli \in Clis
    /\ file \in Files
    /\ config = DefaultConfig
    /\ items = <<>>
    /\ next = 0
    /\ key_log = <<>>
    /\ seen = <<>>
    /\ deduped = <<>>
    /\ removed = 0
    /\ total = 0
    /\ run = 1
    /\ firstRun = NoRun

NextConfig == LoadConfig \/ Override

SpecConfig == InitConfig /\ [][NextConfig]_vars

(***************************************************************************)
(* Vocabulary of the properties.                                           *)
(***************************************************************************)
Range(f) == {f[i] : i \in DOMAIN f}

Min(S) == CHOOSE x \in S : \A y \in S : x <= y

\* The loop is running or over (not a configuration run).
InRun == pc \in {"loop", "done"}

\* The fingerprints of the output slots, in output order.
SlotKeys == [i \in 1..Len(deduped) |-> KeyOf(deduped[i], config)]

\* A sequence cut down to the first occurrence of each of its elements.
RECURSIVE FirstOccurrences(_)
FirstOccurrences(ks) ==
    IF ks = <<>> THEN <<>>
    ELSE LET front == FirstOccurrences(SubSeq(ks, 1, Len(ks) - 1))
         IN  IF ks[Len(ks)] \in Range(front) THEN front
             ELSE Append(front, ks[Len(ks)])

\* The input indices drained so far whose fingerprint is k.
Group(k) == {j \in 1..next : key_log[j] = k}

\* The comparison date of a record: revisionDate when it is a string, else
\* creationDate when it is a string, else missing (<<>>).
ComparisonDate(item) ==
    IF Get(item, K_revisionDate).t = "str" THEN <<Get(item, K_revisionDate).s>>
    ELSE IF Get(item, K_creationDate).t = "str"
    THEN <<Get(item, K_creationDate).s>>
    ELSE <<>>

\* x's comparison date ranks at or below y's: a missing date is below every
\* present one and equal to a missing one, present dates rank as strings.
DateLeq(x, y) ==
    \/ ComparisonDate(x) = <<>>
    \/ /\ ComparisonDate(x) # <<>>
       /\ ComparisonDate(y) # <<>>
       /\ StrCmp(ComparisonDate(x)[1], ComparisonDate(y)[1]) # "Greater"

\* The input index whose record the keep policy retains for the group G.
Winner(G, keep) ==
    CASE keep = "First" -> Min(G)
      [] keep = "Last" -> CHOOSE j \in G : \A i \in G : i <= j
      [] keep = "Newest" ->
             Min({j \in G : \A i \in G : DateLeq(items[i], items[j])})
      [] keep = "Oldest" ->
             Min({j \in G : \A i \in G : DateLeq(items[j], items[i])})

(***************************************************************************)
(* C1.  After every iteration of the dedup loop, under every keep policy,  *)
(* the output holds exactly one slot per distinct fingerprint drained so    *)
(* far, and the slots are in the order of the first input record of each    *)
(* fingerprint; a replacement under Last/Newest/Oldest leaves that so.      *)
(***************************************************************************)
C1_FirstSeenOrder == InRun => SlotKeys = FirstOccurrences(key_log)

\* A finished run under Last with two slots whose first slot was replaced.
C1_Witness ==
    /\ pc = "done"
    /\ run = 1
    /\ config.dedup.keep = "Last"
    /\ Len(deduped) = 2
    /\ removed = 1
    /\ deduped[1] # items[1]

(***************************************************************************)
(* C2.  In every group of drained records sharing a fingerprint the slot   *)
(* holds: under First the first occurrence, under Last the last, under      *)
(* Newest the earliest occurrence whose comparison date is maximal, under   *)
(* Oldest the earliest whose comparison date is minimal (revisionDate if a  *)
(* string, else creationDate if a string, else missing; missing below all). *)
(***************************************************************************)
C2_KeepPolicy ==
    InRun => \A k \in Range(key_log) :
                 /\ k \in DOMAIN seen
                 /\ deduped[seen[k] + 1] = items[Winner(Group(k), config.dedup.keep)]

\* Newest over a group of three whose second and third records tie at the
\* top: the second, neither first nor last, is retained.
C2_Witness ==
    /\ pc = "done"
    /\ run = 1
    /\ config.dedup.keep = "Newest"
    /\ Len(items) = 3
    /\ Len(deduped) = 1
    /\ deduped[1] = items[2]
    /\ items[2] # items[1]
    /\ items[2] # items[3]
    /\ ComparisonDate(items[2]) = ComparisonDate(items[3])

(***************************************************************************)
(* C3.  The removal counter grows by one for each drained record whose     *)
(* fingerprint was already indexed, replaced or not: removed is the number  *)
(* of drained records less the number of distinct fingerprints, the output  *)
(* has one record per distinct fingerprint, and the printed total is the    *)
(* number of input records.                                                 *)
(***************************************************************************)
C3_RemovedCount ==
    InRun => /\ Len(key_log) = next
             /\ Len(deduped) = Cardinality(Range(key_log))
             /\ removed = next - Cardinality(Range(key_log))
             /\ pc = "done" => total = Len(items)

\* A finished run under First that counted two duplicates and replaced none.
C3_Witness ==
    /\ pc = "done"
    /\ run = 1
    /\ config.dedup.keep = "First"
    /\ removed = 2
    /\ Len(deduped) = 1
    /\ items[2] # items[1]

(***************************************************************************)
(* C4.  The resolved configuration takes, for each option, the command     *)
(* line's value when the option is given there, else the config file's      *)
(* value when the file sets it, else the default.                           *)
(***************************************************************************)
CliWins(given, set, default) == OrElse(given, OrElse(set, default))

FlagWins(flag, set, default) == IF flag THEN TRUE ELSE OrElse(set, default)

C4_CliWins ==
    pc = "resolved" =>
        /\ config.dedup.keep = CliWins(cli.keep, file.keep, "First")
        /\ config.dedup.policy_keys =
               CliWins(cli.policy_key, file.policy_keys,
                       <<"Domain", "Username", "Password">>)
        /\ config.ignore.keys =
               CliWins(cli.ignore_key, file.keys,
                       <<K_id, K_revisionDate, K_creationDate, K_passwordHistory>>)
        /\ config.ignore.paths = CliWins(cli.ignore_path, file.paths, <<>>)
        /\ config.normalize.trim_strings =
               FlagWins(cli.trim_strings, file.trim_strings, FALSE)
        /\ config.normalize.lowercase_strings =
               FlagWins(cli.lowercase_strings, file.lowercase_strings, FALSE)
        /\ config.normalize.sort_uris =
               CliWins(cli.sort_uris, file.sort_uris, TRUE)

(***************************************************************************)
(* C5.  A second run, with the same configuration, on the output of a      *)
(* first run removes nothing and returns the same records in the same       *)
(* order.                                                                   *)
(***************************************************************************)
C5_Idempotent ==
    (pc = "done" /\ run = 2) => /\ removed = 0
                                /\ deduped = firstRun.deduped

\* A second run over two records that a first run, which removed one and
\* replaced a slot, had written.
C5_Witness ==
    /\ pc = "done"
    /\ run = 2
    /\ Len(deduped) = 2
    /\ firstRun.removed = 1
    /\ firstRun.deduped[1] # firstRun.items[1]

(***************************************************************************)
(* C9.  Every output record is one whole input record as read; its         *)
(* fingerprint is the one the index maps to its position; the index maps    *)
(* every fingerprint drained so far (none is ever dropped) to one valid     *)
(* position, and no two fingerprints to the same position.                  *)
(***************************************************************************)
C9_OutputAndIndex ==
    InRun =>
        /\ \A i \in 1..Len(deduped) :
               /\ deduped[i] \in {items[j] : j \in 1..next}
               /\ SlotKeys[i] \in DOMAIN seen
               /\ seen[SlotKeys[i]] = i - 1
        /\ DOMAIN seen = Range(key_log)
        /\ \A k \in DOMAIN seen : seen[k] \in 0..(Len(deduped) - 1)
        /\ \A k1 \in DOMAIN seen, k2 \in DOMAIN seen :
               seen[k1] = seen[k2] => k1 = k2

\* Mid-loop, in filter mode, a slot that the second record has taken over.
C9_Witness ==
    /\ pc = "loop"
    /\ run = 1
    /\ config.dedup.policy_keys = <<>>
    /\ next = 2
    /\ Len(items) = 3
    /\ Len(deduped) = 1
    /\ deduped[1] = items[2]
    /\ items[2] # items[1]

(***************************************************************************)
(* Vocabulary of the properties on two records.                            *)
(***************************************************************************)
\* Both fingerprints are computed and the run is over.
PairDone == pc = "done" /\ run = 1 /\ Len(items) = 2 /\ Len(key_log) = 2

PolicyKeys == Range(config.dedup.policy_keys)

\* login.uris of a record.
UrisOf(item) == Get(Get(item, K_login), K_uris)

\* The record without its login.uris.
ExceptUris(item) == remove_path(item, <<K_login, K_uris>>)

\* s and t hold the same elements the same number of times.
IsPermutation(s, t) ==
    /\ Len(s) = Len(t)
    /\ \A e \in Range(s) \cup Range(t) :
           Cardinality({i \in 1..Len(s) : s[i] = e})
               = Cardinality({i \in 1..Len(t) : t[i] = e})

\* The two records are identical except that their login.uris arrays are
\* permutations of each other.
SameButUriOrder ==
    /\ UrisOf(items[1]).t = "arr"
    /\ UrisOf(items[2]).t = "arr"
    /\ ExceptUris(items[1]) = ExceptUris(items[2])
    /\ IsPermutation(UrisOf(items[1]).a, UrisOf(items[2]).a)

\* The configured string normalization of one string.
Norm(s) ==
    NormalizeString(IF config.normalize.trim_strings THEN trim(s) ELSE s,
                    config.normalize.lowercase_strings)

\* Every entry of login.uris gives a uri string, and these are pairwise
\* distinct.
DistinctUriStrings(item) ==
    /\ Len(extract_uris(item)) = Len(UrisOf(item).a)
    /\ \A i \in 1..Len(extract_uris(item)), j \in 1..Len(extract_uris(item)) :
           i # j => extract_uris(item)[i] # extract_uris(item)[j]

\* ... and stay pairwise distinct after the configured string normalization.
NormDistinctUriStrings(item) ==
    /\ DistinctUriStrings(item)
    /\ \A i \in 1..Len(extract_uris(item)), j \in 1..Len(extract_uris(item)) :
           i # j => Norm(extract_uris(item)[i].s) # Norm(extract_uris(item)[j].s)

\* The domain strings login.uris yields, as extracted and after the
\* configured string normalization.
RawDomains(item) == Range(DomainsOf(extract_uris(item)))

NormDomains(item) == {Norm(d) : d \in RawDomains(item)}

\* The projected fields other than the domain array.
OtherProjected(item) ==
    build_policy_value(item, SelectSeq(config.dedup.policy_keys,
                                       LAMBDA k : k # "Domain"))

\* The domain array as it enters the fingerprint.
FingerprintedDomains(item) ==
    normalize_strings(JArr(extract_domains(item)), config.normalize.trim_strings,
                      config.normalize.lowercase_strings).a

\* An array of strings in strictly ascending order: sorted, no duplicates.
StrictlySorted(arr) ==
    \A i \in 1..(Len(arr) - 1) : StrCmp(arr[i].s, arr[i + 1].s) = "Less"

\* x and y are equal up to object key order once the keys in K are deleted
\* from every object at every depth.
RECURSIVE EqualIgnoring(_, _, _)
EqualIgnoring(x, y, K) ==
    CASE x.t = "obj" /\ y.t = "obj" ->
             LET kx == {x.m[i][1] : i \in 1..Len(x.m)} \ K
                 ky == {y.m[i][1] : i \in 1..Len(y.m)} \ K
             IN  /\ kx = ky
                 /\ \A k \in kx : EqualIgnoring(MapGet(x.m, k), MapGet(y.m, k), K)
      [] x.t = "arr" /\ y.t = "arr" ->
             /\ Len(x.a) = Len(y.a)
             /\ \A i \in 1..Len(x.a) : EqualIgnoring(x.a[i], y.a[i], K)
      [] OTHER -> x = y

(***************************************************************************)
(* C6.  As stated: in policy-key mode with Domain among the keys, whatever  *)
(* trim-strings and lowercase-strings are, two records with equal other     *)
(* projected fields whose login.uris yield the same set of domain strings   *)
(* after the configured string normalization have equal fingerprints, the   *)
(* fingerprinted domain array is sorted and duplicate-free, and the two     *)
(* records dedup to one with removed = 1.                                   *)
(***************************************************************************)
C6_NormalizedDomainSets ==
    (PairDone /\ "Domain" \in PolicyKeys
       /\ OtherProjected(items[1]) = OtherProjected(items[2])
       /\ NormDomains(items[1]) = NormDomains(items[2]))
    => /\ key_log[1] = key_log[2]
       /\ StrictlySorted(FingerprintedDomains(items[1]))
       /\ StrictlySorted(FingerprintedDomains(items[2]))
       /\ Len(deduped) = 1
       /\ removed = 1

(***************************************************************************)
(* C6, amended.  The domain array is sorted and deduplicated before the     *)
(* string normalization: two such records whose login.uris yield the same   *)
(* set of domain strings as extracted have equal fingerprints, whatever      *)
(* trim-strings and lowercase-strings are, and dedup to one record with      *)
(* removed = 1; the fingerprinted domain array is sorted and duplicate-free  *)
(* when trim-strings and lowercase-strings are both off.                     *)
(***************************************************************************)
C6_ExtractedDomainSets ==
    (PairDone /\ "Domain" \in PolicyKeys)
    => /\ (OtherProjected(items[1]) = OtherProjected(items[2])
             /\ RawDomains(items[1]) = RawDomains(items[2]))
          => /\ key_log[1] = key_log[2]
             /\ Len(deduped) = 1
             /\ removed = 1
       /\ (~config.normalize.trim_strings /\ ~config.normalize.lowercase_strings)
          => /\ StrictlySorted(FingerprintedDomains(items[1]))
             /\ StrictlySorted(FingerprintedDomains(items[2]))

\* Two records with the same extracted domains in different order and
\* multiplicity, collapsed with trimming and lowercasing on.
C6_Witness ==
    /\ PairDone
    /\ "Domain" \in PolicyKeys
    /\ config.normalize.trim_strings
    /\ config.normalize.lowercase_strings
    /\ RawDomains(items[1]) = RawDomains(items[2])
    /\ Cardinality(RawDomains(items[1])) = 2
    /\ extract_uris(items[1]) # extract_uris(items[2])
    /\ Len(deduped) = 1
    /\ removed = 1

(***************************************************************************)
(* C7.  As stated: in whole-record filter mode with sort-uris enabled,      *)
(* whatever trim-strings and lowercase-strings are, two records identical   *)
(* except that their login.uris arrays are permutations of each other, the  *)
(* entries having pairwise distinct uri strings, have equal fingerprints.   *)
(***************************************************************************)
C7_PermutedUris ==
    (PairDone /\ config.dedup.policy_keys = <<>> /\ config.normalize.sort_uris
       /\ SameButUriOrder /\ DistinctUriStrings(items[1]))
    => key_log[1] = key_log[2]

(***************************************************************************)
(* C7, amended.  The same, provided "uri" is not among the ignore-keys      *)
(* (the sort runs on the filtered copy: with "uri" ignored every entry's     *)
(* sort key is empty and the stable sort keeps the input order).            *)
(***************************************************************************)
C7_PermutedUrisKept ==
    (PairDone /\ config.dedup.policy_keys = <<>> /\ config.normalize.sort_uris
       /\ K_uri \notin IgnoreKeys(config)
       /\ SameButUriOrder /\ DistinctUriStrings(items[1]))
    => key_log[1] = key_log[2]

\* Two records whose login.uris differ in order alone, collapsed by the sort
\* with lowercasing on.
C7_Witness ==
    /\ PairDone
    /\ config.dedup.policy_keys = <<>>
    /\ config.normalize.sort_uris
    /\ config.normalize.lowercase_strings
    /\ K_uri \notin IgnoreKeys(config)
    /\ SameButUriOrder
    /\ DistinctUriStrings(items[1])
    /\ UrisOf(items[1]) # UrisOf(items[2])
    /\ Len(deduped) = 1

\* With sort-uris disabled two such records can get different fingerprints.
C7_UnsortedDiffer ==
    /\ PairDone
    /\ config.dedup.policy_keys = <<>>
    /\ ~config.normalize.sort_uris
    /\ SameButUriOrder
    /\ DistinctUriStrings(items[1])
    /\ key_log[1] # key_log[2]

(***************************************************************************)
(* C8.  In whole-record filter mode with no ignore-paths and trimming,      *)
(* lowercasing and URI sorting off, two records have equal fingerprints     *)
(* exactly when they are equal, up to object key order, once every ignored  *)
(* key is deleted from every object at every depth, arrays included.        *)
(***************************************************************************)
C8_KeyFiltering ==
    (PairDone /\ config.dedup.policy_keys = <<>> /\ config.ignore.paths = <<>>
       /\ ~config.normalize.trim_strings /\ ~config.normalize.lowercase_strings
       /\ ~config.normalize.sort_uris)
    => (key_log[1] = key_log[2]
          <=> EqualIgnoring(items[1], items[2], IgnoreKeys(config)))

\* Two records that differ in an id inside an entry of login.uris and in the
\* key order of that entry, collapsed with id ignored.
C8_Witness ==
    /\ PairDone
    /\ config.dedup.policy_keys = <<>>
    /\ config.ignore.paths = <<>>
    /\ ~config.normalize.trim_strings
    /\ ~config.normalize.lowercase_strings
    /\ ~config.normalize.sort_uris
    /\ K_id \in IgnoreKeys(config)
    /\ Get(items[1], K_id) = Get(items[2], K_id)
    /\ UrisOf(items[1]) # UrisOf(items[2])
    /\ key_log[1] = key_log[2]

(***************************************************************************)
(* C10.  As stated: in policy-key mode a record's fingerprint is the same   *)
(* with sort-uris enabled as disabled, and with Uri among the policy keys   *)
(* and sort-uris enabled two records that differ only in the order of their *)
(* login.uris entries (distinct URI strings) get different fingerprints and *)
(* are not collapsed.                                                       *)
(***************************************************************************)
FlipSort(cfg) == [cfg EXCEPT !.normalize.sort_uris = ~@]

SortHasNoEffect ==
    \A j \in 1..2 : key_log[j] = KeyOf(items[j], FlipSort(config))

C10_UriOrderKept ==
    (PairDone /\ config.dedup.policy_keys # <<>>)
    => /\ SortHasNoEffect
       /\ ("Uri" \in PolicyKeys /\ config.normalize.sort_uris
             /\ SameButUriOrder /\ UrisOf(items[1]) # UrisOf(items[2])
             /\ DistinctUriStrings(items[1]))
          => /\ key_log[1] # key_log[2]
             /\ Len(deduped) = 2

(***************************************************************************)
(* C10, amended.  The same, for URI strings that stay pairwise distinct     *)
(* after the configured string normalization (the projected uri array is    *)
(* trimmed and lowercased like any other string).                           *)
(***************************************************************************)
C10_NormalizedUriOrderKept ==
    (PairDone /\ config.dedup.policy_keys # <<>>)
    => /\ SortHasNoEffect
       /\ ("Uri" \in PolicyKeys /\ config.normalize.sort_uris
             /\ SameButUriOrder /\ UrisOf(items[1]) # UrisOf(items[2])
             /\ NormDistinctUriStrings(items[1]))
          => /\ key_log[1] # key_log[2]
             /\ Len(deduped) = 2

\* Two records whose URIs come in opposite orders, kept apart with sort-uris,
\* trimming and lowercasing on.
C10_Witness ==
    /\ PairDone
    /\ "Uri" \in PolicyKeys
    /\ config.normalize.sort_uris
    /\ config.normalize.trim_strings
    /\ config.normalize.lowercase_strings
    /\ SameButUriOrder
    /\ UrisOf(items[1]) # UrisOf(items[2])
    /\ NormDistinctUriStrings(items[1])
    /\ Len(deduped) = 2
    /\ removed = 0

=============================================================================
